---- MODULE Spec2Model ----
(***************************************************************************)
(* A model of zipcode.py: the two connectivity prechecks, the batched      *)
(* distance aggregation, the top-3 selection and the report assembly.      *)
(*                                                                         *)
(* Texts that the program parses (distance texts, employee postal codes)   *)
(* are sequences of one-character strings, so that split, replace and      *)
(* float are computed and not assumed.  A kilometre value is kept in       *)
(* tenths of a kilometre (the provider's texts carry at most one decimal). *)
(***************************************************************************)
EXTENDS Integers, Sequences, FiniteSets, TLC

\* ------------------------------------------------------------- bounds
MaxEmployees == 2
MaxFacilities == 23
MaxWorld == 2
MaxSelFacilities == 4
MaxConvFacilities == 2
MaxFairFacilities == 11

\* ---------------------------------------------------- program constants
batch_size == 10

\* ------------------------------------------------------- text helpers
Digits == <<"0", "1", "2", "3", "4", "5", "6", "7", "8", "9">>

DigitVal(c) == (CHOOSE d \in 1..10 : Digits[d] = c) - 1

\* str.replace(',', ''): every comma removed.
StripCommas(s) == SelectSeq(s, LAMBDA c : c # ",")

\* The index of the first character of s at or after i that is in chars
\* (inSet) or is not in chars (~inSet); Len(s) + 1 when there is none.
RECURSIVE ScanTo(_, _, _, _)
ScanTo(s, i, chars, inSet) ==
    IF i > Len(s) \/ ((s[i] \in chars) = inSet) THEN i
    ELSE ScanTo(s, i + 1, chars, inSet)

Whitespace == {" "}

\* str.split()[0]: leading whitespace skipped, then the characters up to the
\* next whitespace.
FirstToken(s) ==
    LET b == ScanTo(s, 1, Whitespace, FALSE)
        e == ScanTo(s, b, Whitespace, TRUE)
    IN SubSeq(s, b, e - 1)

\* str.split('.')[0]: the characters before the first dot.
BeforeDot(s) == SubSeq(s, 1, ScanTo(s, 1, {"."}, TRUE) - 1)

\* The value of the decimal digits s[1..n].
RECURSIVE DigitsValueTo(_, _)
DigitsValueTo(s, n) ==
    IF n = 0 THEN 0 ELSE 10 * DigitsValueTo(s, n - 1) + DigitVal(s[n])

DigitsValue(s) == DigitsValueTo(s, Len(s))

\* float(token), in tenths: an integer part and at most one decimal.
ParseFloat10(tok) ==
    LET whole == BeforeDot(tok)
        frac  == SubSeq(tok, Len(whole) + 2, Len(tok))
    IN 10 * DigitsValue(whole) + (IF frac = <<>> THEN 0 ELSE DigitVal(frac[1]))

\* The sort key of main: float(x[1].replace(',', '').split()[0]).
SortKey(text) == ParseFloat10(FirstToken(StripCommas(text)))

\* distance_km of generate_output_file:
\* float(distance.split()[0].replace(',', '')).
distance_km(text) == ParseFloat10(StripCommas(FirstToken(text)))

\* 0.621371 * km for km given in tenths, as the pair of the integer part and
\* the numerator of the remaining fraction over 10^4.  The product is
\* km10 * 621371 / 10^7; it is split as 621 * 1000 + 371 to stay within
\* 32-bit integers.  For km below 60,000 the product is never within 1e-7
\* of a whole number unless it is one exactly (km = 0), so the double the
\* program computes truncates and rounds as the exact value does.
km_to_miles(km10) ==
    LET scaled == km10 * 621 + (km10 * 371) \div 1000
    IN <<scaled \div 10000, scaled % 10000>>

\* A variant that rounds to the nearest mile.
distance_miles_rounded(text) ==
    LET m == km_to_miles(distance_km(text))
    IN IF m[2] >= 5000 THEN m[1] + 1 ELSE m[1]

\* distance_miles = int(km_to_miles(distance_km)): truncation toward zero.
distance_miles(text) == km_to_miles(distance_km(text))[1]

\* ------------------------------------------------------ the inputs
\* Distance texts as the provider writes them.
T_10 == <<"1", "0", " ", "k", "m">>
T_50 == <<"5", "0", " ", "k", "m">>
T_5000 == <<"5", ",", "0", "0", "0", " ", "k", "m">>
T_1000 == <<"1", ",", "0", "0", "0", " ", "k", "m">>
T_1 == <<"1", " ", "k", "m">>
T_2 == <<"2", " ", "k", "m">>
T_0_5 == <<"0", ".", "5", " ", "k", "m">>
T_1_6 == <<"1", ".", "6", " ", "k", "m">>
T_1_7 == <<"1", ".", "7", " ", "k", "m">>
T_12_5 == <<"1", "2", ".", "5", " ", "k", "m">>
T_1m == <<"1", " ", "m">>
T_1234 == <<"1", ",", "2", "3", "4", " ", "k", "m">>

\* An element of the provider's response: with a distance field, or without.
Available(text) == [status |-> "OK", distance |-> [text |-> text]]

Unavailable == [status |-> "NOT_FOUND"]

SelTexts == {T_10, T_50, T_5000, T_1000}

ConvTexts ==
    {T_10, T_50, T_5000, T_1000, T_1, T_2, T_0_5, T_1_6, T_1_7, T_12_5, T_1m,
     T_1234}

ElementsOf(texts) == {Available(t) : t \in texts} \cup {Unavailable}

\* The rows of input.csv are drawn from these: Name and Employee Zip, the
\* second with the decimal suffix a numeric-looking source leaves.
JaneDoe == [Name |-> "Jane Doe", Zip |-> <<"1", "0", "0", "0", "1">>]

JohnRoe == [Name |-> "John Roe", Zip |-> <<"0", "0", "5", "0", "1", ".", "0">>]

EmployeeSet == {JaneDoe, JohnRoe}

\* The rows of facilities.csv are a prefix of these: Facility Zip, Airport
\* Code.  The postal codes are unique.
FacilityTable ==
    <<<<"00501", "ISP">>,
       <<"10001", "JFK">>,
       <<"60601", "ORD">>,
       <<"90001", "LAX">>,
       <<"75201", "DFW">>,
       <<"30301", "ATL">>,
       <<"98101", "SEA">>,
       <<"80201", "DEN">>,
       <<"33101", "MIA">>,
       <<"02101", "BOS">>,
       <<"19101", "PHL">>,
       <<"85001", "PHX">>,
       <<"77001", "IAH">>,
       <<"48201", "DTW">>,
       <<"55401", "MSP">>,
       <<"63101", "STL">>,
       <<"97201", "PDX">>,
       <<"84101", "SLC">>,
       <<"37201", "BNA">>,
       <<"28201", "CLT">>,
       <<"70112", "MSY">>,
       <<"89101", "LAS">>,
       <<"96801", "HNL">>,
       <<"99501", "ANC">>,
       <<"20001", "DCA">>,
       <<"21201", "BWI">>,
       <<"15201", "PIT">>,
       <<"44101", "CLE">>>>

Min(a, b) == IF a < b THEN a ELSE b

FacilityRowsOf(n) == SubSeq(FacilityTable, 1, Min(n, Len(FacilityTable)))

SeqsUpTo(S, n) == UNION {[1..k -> S] : k \in 0..n}

\* A distance table that varies with the employee and the facility; every
\* run of batch_size consecutive facilities holds unavailable ones, ties and
\* out-of-order distances.
PatternElems ==
    <<Available(T_50), Available(T_10), Available(T_5000), Unavailable,
      Available(T_10), Available(T_1000), Available(T_50)>>

PatternElement(k, e, f) ==
    PatternElems[(((f - 1) + 3 * (e - 1) + k) % Len(PatternElems)) + 1]

\* ------------------------------------------------------- the state
VARIABLES
    inputRows,               \* input.csv
    facilityRows,            \* facilities.csv
    world,                   \* what the provider answers: employee -> zip -> element
    pc,                      \* where main is
    network_test,            \* "unset", "True" or "False"
    api_test,                \* "unset", "True" or "False"
    df_input,                \* the rows read from input.csv
    employee_names,
    facility_codes_mapping,  \* a dict, as its <<key, value>> pairs in insertion order
    data,                    \* <<employee_zip, top 3>> per processed employee
    idx,                     \* the number of input rows the loop of main has taken
    employee_zip,
    facility_zips,
    facility_batches,
    batch,                   \* the index of the next batch of the loop
    distances,               \* the elements collected so far
    inFlight,                \* the remote calls issued and not yet answered
    callLog,                 \* every remote call issued, in order
    diagnostics,             \* the "Distance data not available" lines printed
    aggregated,              \* what process_distances_batch last returned
    outputFiles,             \* every workbook saved to output.xlsx, in order
    raised,                  \* <<where, exception>> of the exception that left main
    probes                   \* what each precheck's probe request ended in

vars ==
    <<inputRows, facilityRows, world, pc, network_test, api_test, df_input,
      employee_names, facility_codes_mapping, data, idx, employee_zip,
      facility_zips, facility_batches, batch, distances, inFlight, callLog,
      diagnostics, aggregated, outputFiles, raised, probes>>

envVars == <<inputRows, facilityRows, world>>

loopVars ==
    <<employee_zip, facility_zips, facility_batches, batch, distances>>

\* ------------------------------------------------------- the prechecks
\* What the probe request of test_network_connectivity can end in.
NetworkOutcomes ==
    {[kind |-> "response", status |-> 200],
     [kind |-> "response", status |-> 503],
     [kind |-> "ClientConnectionError", status |-> 0],
     [kind |-> "TimeoutError", status |-> 0]}

\* test_network_connectivity: "True", "False", or the exception that escapes.
test_network_connectivity(o) ==
    CASE o.kind = "response" -> IF o.status = 200 THEN "True" ELSE "False"
      [] o.kind = "ClientConnectionError" -> "False"
      [] OTHER -> o.kind

\* What the probe request of test_api_connection can end in: a decoded body
\* (with or without a status field), a body response.json() cannot decode, a
\* connection error, a timeout.
ApiOutcomes ==
    {[kind |-> "response", body |-> [status |-> "OK"]],
     [kind |-> "response", body |-> [status |-> "REQUEST_DENIED"]],
     [kind |-> "response", body |-> [error_message |-> "denied"]],
     [kind |-> "ContentTypeError", body |-> [error_message |-> ""]],
     [kind |-> "ClientConnectionError", body |-> [error_message |-> ""]],
     [kind |-> "TimeoutError", body |-> [error_message |-> ""]]}

\* test_api_connection: "True", "False", or the exception that escapes.
test_api_connection(o) ==
    CASE o.kind = "response" ->
            IF "status" \in DOMAIN o.body
            THEN (IF o.body.status = "OK" THEN "True" ELSE "False")
            ELSE "KeyError"
      [] o.kind = "ClientConnectionError" -> "False"
      [] OTHER -> o.kind

\* main after a precheck that always goes on.
ContinueRegardless(result, next) ==
    IF result \in {"True", "False"} THEN next ELSE "crashed"

\* main after a precheck: return on a false result, go on on a true one; an
\* exception of the precheck leaves main.
AfterPrecheck(result, next) ==
    CASE result = "True" -> next
      [] result = "False" -> "aborted"
      [] OTHER -> "crashed"

\* ------------------------------------------------- the facility mapping
DictHas(d, k) == \E i \in 1..Len(d) : d[i][1] = k

DictGet(d, k) == d[CHOOSE i \in 1..Len(d) : d[i][1] = k][2]

DictKeys(d) == [i \in 1..Len(d) |-> d[i][1]]

Indices(s) == [i \in 1..Len(s) |-> i]

\* The loop of main over df_facilities.iterrows(), assigning
\* facility_codes_mapping[zip] = code row by row: a dict keeps a key at the
\* place of its first assignment and holds the value of its last one.
BuildMapping(rows) ==
    LET first == SelectSeq(Indices(rows),
                     LAMBDA i : \A j \in 1..(i - 1) : rows[j][1] # rows[i][1])
        last(k) == CHOOSE j \in 1..Len(rows) :
                      /\ rows[j][1] = k
                      /\ \A h \in (j + 1)..Len(rows) : rows[h][1] # k
    IN [p \in 1..Len(first) |->
            <<rows[first[p]][1], rows[last(rows[first[p]][1])][2]>>]

\* ------------------------------------------------------ the aggregator
\* Batches that overlap by one facility.
OverlappingBatches(zips) ==
    [b \in 1..((Len(zips) + batch_size - 1) \div batch_size) |->
        SubSeq(zips, (b - 1) * batch_size + 1,
               Min(b * batch_size + 1, Len(zips)))]

\* facility_zips[i:i + batch_size] for i in range(0, len, batch_size).
FacilityBatches(zips) ==
    [b \in 1..((Len(zips) + batch_size - 1) \div batch_size) |->
        SubSeq(zips, (b - 1) * batch_size + 1, Min(b * batch_size, Len(zips)))]

\* '|'.join(batch): the postal codes with a separator between neighbours.
Join(b) ==
    [i \in 1..(2 * Len(b) - 1) |-> IF i % 2 = 1 THEN b[(i + 1) \div 2] ELSE "|"]

\* The provider's reading of the destinations parameter.
SplitDestinations(d) == SelectSeq(d, LAMBDA x : x # "|")

\* fetch_distance: one element per destination, in the order of destinations.
fetch_distance(e, destinations) ==
    LET ds == SplitDestinations(destinations)
    IN [i \in 1..Len(ds) |-> world[e][ds[i]]]

HasDistance(pair) == "distance" \in DOMAIN pair[2]

\* zip(facility_zips, distances).
ZipPairs(zips, ds) == [i \in 1..Min(Len(zips), Len(ds)) |-> <<zips[i], ds[i]>>]

\* A result that pairs the facilities with the elements that carry a
\* distance, the others dropped before the pairing.
ResultFilteredFirst(zips, ds) ==
    LET kept == SelectSeq(ds, LAMBDA el : "distance" \in DOMAIN el)
    IN [i \in 1..Min(Len(zips), Len(kept)) |->
            <<zips[i], kept[i].distance.text>>]

\* The result list of process_distances_batch.
Result(zips, ds) ==
    LET kept == SelectSeq(ZipPairs(zips, ds), HasDistance)
    IN [i \in 1..Len(kept) |-> <<kept[i][1], kept[i][2].distance.text>>]

\* The facilities process_distances_batch prints a notice for.
Notices(zips, ds) ==
    LET lost == SelectSeq(ZipPairs(zips, ds), LAMBDA p : ~HasDistance(p))
    IN [i \in 1..Len(lost) |-> lost[i][1]]

\* -------------------------------------------------------- the selector
\* The key of every entry of s, in order.
Keys(s) == [i \in 1..Len(s) |-> SortKey(s[i][2])]

\* The place of every entry in ascending order of key, stable: entry i goes
\* behind the entries of smaller key and behind the earlier entries of equal
\* key.
StablePlaces(key) ==
    [i \in 1..Len(key) |->
        1 + Cardinality({j \in 1..Len(key) : key[j] < key[i]})
          + Cardinality({j \in 1..(i - 1) : key[j] = key[i]})]

\* The same with the later of two entries of equal key first.
ReversedTiePlaces(key) ==
    [i \in 1..Len(key) |->
        1 + Cardinality({j \in 1..Len(key) : key[j] < key[i]})
          + Cardinality({j \in (i + 1)..Len(key) : key[j] = key[i]})]

\* s with entry i moved to place[i].
Placed(s, place) == [p \in 1..Len(s) |-> s[CHOOSE i \in 1..Len(s) : place[i] = p]]

StableByKey(s, key) ==
    CHOOSE r \in {Placed(s, place) : place \in {StablePlaces(key)}} : TRUE

ReversedTies(s, key) ==
    CHOOSE r \in {Placed(s, place) : place \in {ReversedTiePlaces(key)}} : TRUE

\* list.sort(key=...): the key of each entry is computed once, then the list
\* is sorted by it, stably.
SortByKm(s) == CHOOSE r \in {StableByKey(s, key) : key \in {Keys(s)}} : TRUE

UnstableSort(s) == CHOOSE r \in {ReversedTies(s, key) : key \in {Keys(s)}} : TRUE

Top3Unstable(result) == SubSeq(UnstableSort(result), 1, Min(3, Len(result)))

Top2(result) == SubSeq(SortByKm(result), 1, Min(2, Len(result)))

\* facility_distances.sort(key=...); facility_distances[:3].
Top3(result) == SubSeq(SortByKm(result), 1, Min(3, Len(result)))

\* ---------------------------------------------------------- the report
HeaderRow ==
    <<"Employee Name", "Employee Zip",
      "Closest Facility 1", "Closest Facility 2", "Closest Facility 3",
      "Distance 1 (miles)", "Distance 2 (miles)", "Distance 3 (miles)",
      "Facility 1 Airport Code", "Facility 2 Airport Code",
      "Facility 3 Airport Code">>

\* The cells generate_output_file writes on one row, as a map from the
\* columns written to their values; a column never written is a blank cell.
\* Columns 1 and 2 take the name and the employee zip; slot i (counted from
\* 1) writes the facility zip to column i + 2, then the miles to column
\* i + 5, then the airport code to column i + 8, and a later write to a
\* column replaces an earlier one.
Cells(entry, name, mapping) ==
    LET facilities == entry[2]
        n == Len(facilities)
        slots == 1..n
    IN [c \in {1, 2} \cup {i + 2 : i \in slots} \cup {i + 5 : i \in slots}
                \cup {i + 8 : i \in slots} |->
          CASE c = 1 -> name
            [] c = 2 -> entry[1]
            [] c > 2 /\ c - 2 \in slots -> facilities[c - 2][1]
            [] c > 2 /\ c - 2 \notin slots /\ c - 5 \in slots ->
                   distance_miles(facilities[c - 5][2])
            [] OTHER -> DictGet(mapping, facilities[c - 8][1])]

\* A row that takes the airport code of the employee's closest facility for
\* every slot.
RowWithFirstCode(entry, name, mapping) ==
    LET good == Cells(entry, name, mapping)
    IN [c \in DOMAIN good |-> IF c \in 9..11 THEN good[9] ELSE good[c]]

\* One data row of generate_output_file.
ReportRow(entry, name, mapping) == Cells(entry, name, mapping)

\* facility_codes_mapping[facility_zip] raises KeyError on a missing key.
LookupsSucceed(rows, mapping) ==
    \A k \in 1..Len(rows) : \A i \in 1..Len(rows[k][2]) :
        DictHas(mapping, rows[k][2][i][1])

\* The sheet generate_output_file saves: the header, then one row per entry
\* of data, named by employee_names[idx - 2].
Workbook(rows, mapping, names) ==
    <<HeaderRow>> \o [k \in 1..Len(rows) |-> ReportRow(rows[k], names[k], mapping)]

\* ------------------------------------------------------------- main
\* A loop that stops one row early.
StopsOneEarly(i, df) == i + 1 < Len(df)

\* df_input.iterrows() has a row left.
MoreEmployees(i, df) == i < Len(df)

\* A failed batch call that is swallowed and issued again.
RetryBatch == "for_batch"

\* No handler surrounds the await of fetch_distance, in
\* process_distances_batch or in main: its exception leaves main.
AfterBatchFailure == "crashed"

\* What a failed batch call raises.
BatchFailures == {"ClientConnectionError", "TimeoutError"}

NetworkCall == [kind |-> "network", employee |-> 0, destinations |-> <<>>]

ApiCall == [kind |-> "api", employee |-> 0, destinations |-> <<>>]

BatchCall(e, d) == [kind |-> "batch", employee |-> e, destinations |-> d]

InitProgram ==
    /\ pc = "test_network"
    /\ network_test = "unset"
    /\ api_test = "unset"
    /\ df_input = <<>>
    /\ employee_names = <<>>
    /\ facility_codes_mapping = <<>>
    /\ data = <<>>
    /\ idx = 0
    /\ employee_zip = <<>>
    /\ facility_zips = <<>>
    /\ facility_batches = <<>>
    /\ batch = 1
    /\ distances = <<>>
    /\ inFlight = {}
    /\ callLog = <<>>
    /\ diagnostics = <<>>
    /\ aggregated = <<>>
    /\ outputFiles = <<>>
    /\ raised = <<>>
    /\ probes = <<>>

ZipIndex(z) == CHOOSE i \in 1..Len(FacilityTable) : FacilityTable[i][1] = z

ZipsOf(rows) == {rows[i][1] : i \in 1..Len(rows)}

\* Up to maxE employees, up to maxF facilities, the provider answering from
\* one of the pattern tables 0..maxK.
InitPattern(maxE, maxF, maxK) ==
    /\ InitProgram
    /\ \E n \in 0..maxF, emps \in SeqsUpTo(EmployeeSet, maxE), k \in 0..maxK :
        /\ inputRows = emps
        /\ facilityRows = FacilityRowsOf(n)
        /\ world = [e \in 1..Len(emps) |->
                      [z \in ZipsOf(FacilityRowsOf(n)) |->
                          PatternElement(k, e, ZipIndex(z))]]

Init == InitPattern(MaxEmployees, MaxFacilities, MaxWorld)

\* The same with fewer facilities (still more than one batch) and the first
\* pattern table only.
InitFair == InitPattern(MaxEmployees, MaxFairFacilities, 0)

\* One employee, up to maxF facilities, the provider answering any element
\* over texts for each of them.
InitOneEmployee(maxF, texts) ==
    /\ InitProgram
    /\ \E n \in 0..maxF, emp \in EmployeeSet :
        /\ inputRows = <<emp>>
        /\ facilityRows = FacilityRowsOf(n)
        /\ \E row \in [ZipsOf(FacilityRowsOf(n)) -> ElementsOf(texts)] :
              world = <<row>>

InitSelect == InitOneEmployee(MaxSelFacilities, SelTexts)

InitConv == InitOneEmployee(MaxConvFacilities, ConvTexts)

IssueNetworkTest ==
    /\ pc = "test_network"
    /\ pc' = "await_network"
    /\ inFlight' = inFlight \cup {NetworkCall}
    /\ callLog' = Append(callLog, NetworkCall)
    /\ UNCHANGED <<envVars, network_test, api_test, df_input, employee_names,
                   facility_codes_mapping, data, idx, loopVars, diagnostics,
                   aggregated, outputFiles, raised, probes>>

NetworkTestCompletes ==
    /\ pc = "await_network"
    /\ \E o \in NetworkOutcomes :
        LET r == test_network_connectivity(o)
        IN /\ network_test' = IF r \in {"True", "False"} THEN r ELSE network_test
           /\ raised' = IF r \in {"True", "False"} THEN raised
                        ELSE <<"test_network_connectivity", r>>
           /\ pc' = AfterPrecheck(r, "test_api")
           /\ probes' = Append(probes, <<"network", o>>)
    /\ inFlight' = inFlight \ {NetworkCall}
    /\ UNCHANGED <<envVars, api_test, df_input, employee_names,
                   facility_codes_mapping, data, idx, loopVars, callLog,
                   diagnostics, aggregated, outputFiles>>

IssueApiTest ==
    /\ pc = "test_api"
    /\ pc' = "await_api"
    /\ inFlight' = inFlight \cup {ApiCall}
    /\ callLog' = Append(callLog, ApiCall)
    /\ UNCHANGED <<envVars, network_test, api_test, df_input, employee_names,
                   facility_codes_mapping, data, idx, loopVars, diagnostics,
                   aggregated, outputFiles, raised, probes>>

ApiTestCompletes ==
    /\ pc = "await_api"
    /\ \E o \in ApiOutcomes :
        LET r == test_api_connection(o)
        IN /\ api_test' = IF r \in {"True", "False"} THEN r ELSE api_test
           /\ raised' = IF r \in {"True", "False"} THEN raised
                        ELSE <<"test_api_connection", r>>
           /\ pc' = AfterPrecheck(r, "load_inputs")
           /\ probes' = Append(probes, <<"api", o>>)
    /\ inFlight' = inFlight \ {ApiCall}
    /\ UNCHANGED <<envVars, network_test, df_input, employee_names,
                   facility_codes_mapping, data, idx, loopVars, callLog,
                   diagnostics, aggregated, outputFiles>>

\* main, from pd.read_csv(INPUT_FILE) to the facility mapping.
LoadInputs ==
    /\ pc = "load_inputs"
    /\ df_input' = inputRows
    /\ employee_names' = [k \in 1..Len(inputRows) |-> inputRows[k].Name]
    /\ facility_codes_mapping' = BuildMapping(facilityRows)
    /\ pc' = "for_employee"
    /\ UNCHANGED <<envVars, network_test, api_test, data, idx, loopVars,
                   inFlight, callLog, diagnostics, aggregated, outputFiles,
                   raised, probes>>

\* The head of the loop over the employees, and process_distances_batch up
\* to its loop over the batches.
BeginEmployee ==
    /\ pc = "for_employee"
    /\ MoreEmployees(idx, df_input)
    /\ idx' = idx + 1
    /\ employee_zip' = BeforeDot(df_input[idx + 1].Zip)
    /\ facility_zips' = DictKeys(facility_codes_mapping)
    /\ facility_batches' = FacilityBatches(DictKeys(facility_codes_mapping))
    /\ batch' = 1
    /\ distances' = <<>>
    /\ pc' = "for_batch"
    /\ UNCHANGED <<envVars, network_test, api_test, df_input, employee_names,
                   facility_codes_mapping, data, inFlight, callLog,
                   diagnostics, aggregated, outputFiles, raised, probes>>

IssueBatchCall ==
    /\ pc = "for_batch"
    /\ batch <= Len(facility_batches)
    /\ LET call == BatchCall(idx, Join(facility_batches[batch]))
       IN /\ inFlight' = inFlight \cup {call}
          /\ callLog' = Append(callLog, call)
    /\ pc' = "await_batch"
    /\ UNCHANGED <<envVars, network_test, api_test, df_input, employee_names,
                   facility_codes_mapping, data, idx, loopVars, diagnostics,
                   aggregated, outputFiles, raised, probes>>

BatchCallReturns ==
    /\ pc = "await_batch"
    /\ LET destinations == Join(facility_batches[batch])
       IN /\ distances' = distances \o fetch_distance(idx, destinations)
          /\ inFlight' = inFlight \ {BatchCall(idx, destinations)}
    /\ batch' = batch + 1
    /\ pc' = "for_batch"
    /\ UNCHANGED <<envVars, network_test, api_test, df_input, employee_names,
                   facility_codes_mapping, data, idx, employee_zip,
                   facility_zips, facility_batches, callLog, diagnostics,
                   aggregated, outputFiles, raised, probes>>

BatchCallFails ==
    /\ pc = "await_batch"
    /\ \E x \in BatchFailures : raised' = <<"fetch_distance", x>>
    /\ inFlight' = inFlight \ {BatchCall(idx, Join(facility_batches[batch]))}
    /\ pc' = AfterBatchFailure
    /\ UNCHANGED <<envVars, network_test, api_test, df_input, employee_names,
                   facility_codes_mapping, data, idx, loopVars, callLog,
                   diagnostics, aggregated, outputFiles, probes>>

\* The end of process_distances_batch (the result and the notices), then the
\* sort, the slice and the append of main.
FinishEmployee ==
    /\ pc = "for_batch"
    /\ batch > Len(facility_batches)
    /\ \E result \in {Result(facility_zips, distances)} :
          /\ aggregated' = result
          /\ data' = Append(data, <<employee_zip, Top3(result)>>)
    /\ \E notices \in {Notices(facility_zips, distances)} :
          diagnostics' = diagnostics \o [i \in 1..Len(notices) |-> <<idx, notices[i]>>]
    /\ pc' = "for_employee"
    /\ UNCHANGED <<envVars, network_test, api_test, df_input, employee_names,
                   facility_codes_mapping, idx, loopVars, inFlight, callLog,
                   outputFiles, raised, probes>>

GenerateOutputFile ==
    /\ pc = "for_employee"
    /\ ~MoreEmployees(idx, df_input)
    /\ IF LookupsSucceed(data, facility_codes_mapping)
       THEN /\ outputFiles' = Append(outputFiles,
                   Workbook(data, facility_codes_mapping, employee_names))
            /\ pc' = "done"
            /\ raised' = raised
       ELSE /\ outputFiles' = outputFiles
            /\ pc' = "crashed"
            /\ raised' = <<"generate_output_file", "KeyError">>
    /\ UNCHANGED <<envVars, network_test, api_test, df_input, employee_names,
                   facility_codes_mapping, data, idx, loopVars, inFlight,
                   callLog, diagnostics, aggregated, probes>>

Next ==
    \/ IssueNetworkTest
    \/ NetworkTestCompletes
    \/ IssueApiTest
    \/ ApiTestCompletes
    \/ LoadInputs
    \/ BeginEmployee
    \/ IssueBatchCall
    \/ BatchCallReturns
    \/ BatchCallFails
    \/ FinishEmployee
    \/ GenerateOutputFile

Spec == Init /\ [][Next]_vars

SpecSelect == InitSelect /\ [][Next]_vars

SpecConv == InitConv /\ [][Next]_vars

\* Every remote call is answered or fails, and main runs on between calls.
FairSpec == InitFair /\ [][Next]_vars /\ WF_vars(Next)

Terminated == pc \in {"done", "aborted", "crashed"}

\* ------------------------------------------------------------ claims
IsBatch(c) == c.kind = "batch"

BatchCalls == SelectSeq(callLog, IsBatch)

PrechecksPassed == network_test = "True" /\ api_test = "True"

\* C1: no batch call is issued, no employee is taken and no output file is
\* written unless both prechecks have returned true; the provider precheck is
\* issued only after the network precheck returned true; a run that a false
\* precheck ended has issued no batch call and written nothing.
C1_PrechecksGate ==
    /\ (BatchCalls # <<>> \/ idx > 0 \/ data # <<>> \/ outputFiles # <<>>)
          => PrechecksPassed
    /\ (\E i \in 1..Len(callLog) : callLog[i] = ApiCall)
          => (network_test = "True" /\ NetworkCall \notin inFlight)
    /\ (network_test = "False" \/ api_test = "False")
          => (pc = "aborted" /\ BatchCalls = <<>> /\ outputFiles = <<>>)
    /\ network_test = "False" => callLog = <<NetworkCall>>

C1_Witness ==
    /\ pc = "aborted"
    /\ network_test = "True"
    /\ api_test = "False"
    /\ callLog = <<NetworkCall, ApiCall>>
    /\ Len(inputRows) > 0

\* C2 as stated: a run whose prechecks both succeeded ends with every
\* employee processed and the output file written exactly once.
C2_Original ==
    (Terminated /\ PrechecksPassed)
        => (pc = "done" /\ Len(outputFiles) = 1 /\ Len(data) = Len(inputRows))

C2_Safety ==
    /\ Len(outputFiles) <= 1
    /\ outputFiles # <<>>
          => (pc = "done" /\ idx = Len(inputRows) /\ Len(data) = Len(inputRows))
    /\ (Terminated /\ PrechecksPassed /\ raised = <<>>)
          => (pc = "done" /\ Len(outputFiles) = 1 /\ Len(data) = Len(inputRows))

\* C2, amended: the run always terminates; the output file is written at
\* most once and only after every employee was processed; and a run whose
\* prechecks both succeeded and in which no remote batch call failed ends with
\* every employee processed and the output file written exactly once.
C2_Completion == []C2_Safety /\ <>Terminated

C2_Witness ==
    /\ pc = "done"
    /\ PrechecksPassed
    /\ Len(outputFiles) = 1
    /\ Len(inputRows) >= 2
    /\ Len(BatchCalls) >= 4

FetchFailed == raised # <<>> /\ raised[1] = "fetch_distance"

\* C3: once a batch call has failed the run is over: the exception has left
\* main, nothing more can happen (no retry, no further provider call), the
\* failed call is the last call issued and was issued once, and no output
\* file exists; an output file never holds the rows of only some employees.
C3_FailurePropagates ==
    /\ FetchFailed =>
          /\ pc = "crashed"
          /\ ~ENABLED Next
          /\ inFlight = {}
          /\ outputFiles = <<>>
          /\ callLog # <<>>
          /\ IsBatch(callLog[Len(callLog)])
          /\ \A i \in 1..(Len(callLog) - 1) : callLog[i] # callLog[Len(callLog)]
    /\ \A f \in 1..Len(outputFiles) : Len(outputFiles[f]) = Len(inputRows) + 1

C3_Witness ==
    /\ FetchFailed
    /\ idx = 2
    /\ Len(data) = 1
    /\ batch = 2

ProbeResult(p) ==
    IF p[1] = "network" THEN test_network_connectivity(p[2])
    ELSE test_api_connection(p[2])

ProbeSucceeded(p) ==
    /\ p[2].kind = "response"
    /\ IF p[1] = "network" THEN p[2].status = 200
       ELSE "status" \in DOMAIN p[2].body /\ p[2].body.status = "OK"

\* C4: whatever a probe request ends in, the precheck returns and no
\* exception leaves it; it returns true exactly when the response is a
\* success (status 200, respectively a status field of 'OK').
C4_FailClosed ==
    /\ raised # <<>>
          => raised[1] \notin {"test_network_connectivity", "test_api_connection"}
    /\ \A i \in 1..Len(probes) :
          ProbeResult(probes[i]) = (IF ProbeSucceeded(probes[i]) THEN "True" ELSE "False")

\* The kilometre value each distance text states, in tenths, and the whole
\* miles it comes to (0.621371 miles to the kilometre, truncated), as
\* worked out by hand.
TextKm10(t) ==
    CASE t = T_10 -> 100 [] t = T_50 -> 500 [] t = T_5000 -> 50000
      [] t = T_1000 -> 10000 [] t = T_1 -> 10 [] t = T_2 -> 20
      [] t = T_0_5 -> 5 [] t = T_1_6 -> 16 [] t = T_1_7 -> 17
      [] t = T_12_5 -> 125 [] t = T_1m -> 10 [] t = T_1234 -> 12340

TextMiles(t) ==
    CASE t = T_10 -> 6 [] t = T_50 -> 31 [] t = T_5000 -> 3106
      [] t = T_1000 -> 621 [] t = T_1 -> 0 [] t = T_2 -> 1
      [] t = T_0_5 -> 0 [] t = T_1_6 -> 0 [] t = T_1_7 -> 1
      [] t = T_12_5 -> 7 [] t = T_1m -> 0 [] t = T_1234 -> 766

FacZips == [i \in 1..Len(facilityRows) |-> facilityRows[i][1]]

Usable(e, z) == "distance" \in DOMAIN world[e][z]

UsableZips(e) == {z \in ZipsOf(facilityRows) : Usable(e, z)}

TextOf(e, z) == world[e][z].distance.text

Km10(e, z) == TextKm10(TextOf(e, z))

Range(s) == {s[i] : i \in 1..Len(s)}

PlaceIn(s, z) == CHOOSE i \in 1..Len(s) : s[i][1] = z

\* C5: the top 3 of the employee just processed has min(3, usable
\* facilities) entries, all entries of the aggregator's result and facilities
\* of the mapping, no facility twice, in ascending order of kilometres, equal
\* distances in the order of the aggregator's result; every entry left out is
\* no nearer than any entry kept, and behind it in the result when as near.
C5_Top3 ==
    Len(data) >= 1 =>
        LET e == Len(data)
            top == data[e][2]
        IN /\ Len(top) <= 3
           /\ Len(top) = Min(3, Cardinality(UsableZips(e)))
           /\ \A i \in 1..Len(top) :
                 /\ top[i] \in Range(aggregated)
                 /\ top[i][1] \in ZipsOf(facilityRows)
                 /\ DictHas(facility_codes_mapping, top[i][1])
           /\ \A i, j \in 1..Len(top) : i < j =>
                 /\ top[i][1] # top[j][1]
                 /\ TextKm10(top[i][2]) <= TextKm10(top[j][2])
                 /\ TextKm10(top[i][2]) = TextKm10(top[j][2])
                       => PlaceIn(aggregated, top[i][1]) < PlaceIn(aggregated, top[j][1])
           /\ \A a \in 1..Len(aggregated) : \A i \in 1..Len(top) :
                 aggregated[a] \notin Range(top) =>
                    /\ TextKm10(aggregated[a][2]) >= TextKm10(top[i][2])
                    /\ TextKm10(aggregated[a][2]) = TextKm10(top[i][2])
                          => a > PlaceIn(aggregated, top[i][1])

C5_Witness ==
    /\ Len(data) = 1
    /\ Len(aggregated) = 4
    /\ aggregated[1][2] = T_50
    /\ aggregated[2][2] = T_10
    /\ aggregated[3][2] = T_10
    /\ aggregated[4][2] = T_10
    /\ data[1][2] = <<aggregated[2], aggregated[3], aggregated[4]>>

\* C6: for the employee just processed, a facility is in the aggregator's
\* result exactly if the provider's element for it carries a distance; the
\* result is the facilities with a distance, in facility order, each with its
\* own distance text; every facility left out has exactly one notice and the
\* others none; no facility without a distance is in the top 3; and the top 3
\* is what the facilities with a distance alone would have given.
C6_Absence ==
    Len(data) >= 1 =>
        LET e == Len(data)
            present == SelectSeq(FacZips, LAMBDA z : Usable(e, z))
        IN /\ \A z \in ZipsOf(facilityRows) :
                 (\E i \in 1..Len(aggregated) : aggregated[i][1] = z) <=> Usable(e, z)
           /\ aggregated = [i \in 1..Len(present) |-> <<present[i], TextOf(e, present[i])>>]
           /\ \A d \in 1..e : \A z \in ZipsOf(facilityRows) :
                 Cardinality({i \in 1..Len(diagnostics) : diagnostics[i] = <<d, z>>})
                    = (IF Usable(d, z) THEN 0 ELSE 1)
           /\ \A i \in 1..Len(data[e][2]) : Usable(e, data[e][2][i][1])
           /\ data[e][2] =
                 Top3(Result(present, [i \in 1..Len(present) |-> world[e][present[i]]]))

C6_Witness ==
    /\ Len(data) = 2
    /\ Len(facilityRows) >= batch_size + 5
    /\ ~Usable(2, FacZips[1])
    /\ Usable(2, FacZips[2])
    /\ ~Usable(2, FacZips[batch_size + 5])
    /\ Len(aggregated) < Len(facilityRows)

SlotColumns(i) == {i + 2, i + 5, i + 8}

\* C7: the saved sheet has the header and one row per input row, in input
\* order; row k holds employee k's name and postal code (the decimal suffix
\* stripped) and min(3, usable facilities of employee k) slots, the others
\* blank; the slots are employee k's nearest facilities in ascending order,
\* each with the whole miles of its own distance text and the airport code
\* facilities.csv gives for it; no lookup failed.
C7_Report ==
    pc = "done" =>
        /\ raised = <<>>
        /\ Len(outputFiles) = 1
        /\ Len(outputFiles[1]) = Len(inputRows) + 1
        /\ outputFiles[1][1] = HeaderRow
        /\ \A k \in 1..Len(inputRows) :
              LET row == outputFiles[1][k + 1]
                  emp == inputRows[k]
                  n == Min(3, Cardinality(UsableZips(k)))
                  shown == {row[i + 2] : i \in 1..n}
              IN /\ DOMAIN row = {1, 2} \cup UNION {SlotColumns(i) : i \in 1..n}
                 /\ row[1] = emp.Name
                 /\ "." \notin Range(row[2])
                 /\ row[2] = SubSeq(emp.Zip, 1, Len(row[2]))
                 /\ Len(row[2]) = Len(emp.Zip) \/ emp.Zip[Len(row[2]) + 1] = "."
                 /\ \A i \in 1..n :
                       /\ row[i + 2] = data[k][2][i][1]
                       /\ Usable(k, row[i + 2])
                       /\ row[i + 5] = TextMiles(TextOf(k, row[i + 2]))
                       /\ \E r \in 1..Len(facilityRows) :
                             facilityRows[r] = <<row[i + 2], row[i + 8]>>
                       /\ \A j \in (i + 1)..n :
                             /\ row[i + 2] # row[j + 2]
                             /\ Km10(k, row[i + 2]) <= Km10(k, row[j + 2])
                       /\ \A z \in UsableZips(k) \ shown :
                             Km10(k, z) >= Km10(k, row[i + 2])

C7_Witness ==
    /\ pc = "done"
    /\ Len(inputRows) = 2
    /\ inputRows[1] = JohnRoe
    /\ inputRows[2] = JaneDoe
    /\ 11 \in DOMAIN outputFiles[1][2]
    /\ 4 \in DOMAIN outputFiles[1][3]
    /\ 11 \notin DOMAIN outputFiles[1][3]

\* floor(km10 * 621371 / 10^4), by the split 621371 = 62 * 10^4 + 1371.
MilesTimes1000(km10) == km10 * 62 + (km10 * 1371) \div 10000

\* C8: every miles cell of the saved row is the kilometre value of the
\* facility's distance text (separators stripped) times 0.621371, truncated:
\* miles <= km * 0.621371 < miles + 1; "10 km" gives 6 and "1,000 km" gives
\* 621; of two cells the one of the smaller kilometre value holds no more
\* miles, and the miles of a row ascend.
C8_Miles ==
    pc = "done" =>
        LET row == outputFiles[1][2]
            n == Len(data[1][2])
        IN \A i \in 1..n :
              LET t == TextOf(1, row[i + 2])
                  m == row[i + 5]
              IN /\ distance_km(t) = TextKm10(t)
                 /\ m * 1000 <= MilesTimes1000(TextKm10(t))
                 /\ MilesTimes1000(TextKm10(t)) < (m + 1) * 1000
                 /\ t = T_10 => m = 6
                 /\ t = T_1000 => m = 621
                 /\ \A j \in 1..n :
                       /\ Km10(1, row[i + 2]) <= Km10(1, row[j + 2])
                             => m <= row[j + 5]
                       /\ i < j => m <= row[j + 5]

C8_Witness ==
    /\ pc = "done"
    /\ Len(data[1][2]) = 2
    /\ TextOf(1, outputFiles[1][2][3]) = T_10
    /\ outputFiles[1][2][6] = 6
    /\ TextOf(1, outputFiles[1][2][4]) = T_1000
    /\ outputFiles[1][2][7] = 621

\* Jane Doe at 10001 and four facilities at 50 km, 10 km, 5,000 km and
\* unavailable.
Scenario ==
    /\ inputRows = <<JaneDoe>>
    /\ Len(facilityRows) = 4
    /\ world[1][FacZips[1]] = Available(T_50)
    /\ world[1][FacZips[2]] = Available(T_10)
    /\ world[1][FacZips[3]] = Available(T_5000)
    /\ world[1][FacZips[4]] = Unavailable

FilledSlots(row) == {i \in 1..3 : SlotColumns(i) \subseteq DOMAIN row}

BlankSlots(row) == {i \in 1..3 : SlotColumns(i) \cap DOMAIN row = {}}

\* C9 as stated: the row of the scenario shows 2 filled slots and 1 blank.
C9_Original ==
    (Scenario /\ pc = "done") =>
        /\ Cardinality(FilledSlots(outputFiles[1][2])) = 2
        /\ Cardinality(BlankSlots(outputFiles[1][2])) = 1

\* C9, amended: three facilities of the scenario have a usable distance, so
\* the row shows 3 filled slots and no blank one: the facilities at 10 km,
\* 50 km and 5,000 km, in that order, with 6, 31 and 3106 miles.
C9_Scenario ==
    (Scenario /\ pc = "done") =>
        LET row == outputFiles[1][2]
        IN /\ Cardinality(FilledSlots(row)) = 3
           /\ Cardinality(BlankSlots(row)) = 0
           /\ row[1] = "Jane Doe"
           /\ row[2] = <<"1", "0", "0", "0", "1">>
           /\ <<row[3], row[4], row[5]>> = <<FacZips[2], FacZips[1], FacZips[3]>>
           /\ <<row[6], row[7], row[8]>> = <<6, 31, 3106>>

C9_Witness == Scenario /\ pc = "done" /\ Len(outputFiles) = 1

BatchCallsOf(e) == SelectSeq(callLog, LAMBDA c : IsBatch(c) /\ c.employee = e)

\* The least number of groups of batch_size that hold n facilities.
GroupsFor(n) == CHOOSE c \in 0..n : c * batch_size >= n /\ (c = 0 \/ (c - 1) * batch_size < n)

\* C10: at most one remote call is in flight, and it is the last one issued;
\* the calls are issued employee by employee; for each employee the batch
\* calls are the consecutive groups of batch_size facilities in order (none
\* larger, the last possibly smaller), ceil(n / batch_size) of them once the
\* employee is processed; the elements collected pair the i-th element with
\* the i-th facility, and the result keeps the facility order.
C10_Batching ==
    LET n == Len(FacZips)
    IN /\ Cardinality(inFlight) <= 1
       /\ inFlight # {} => inFlight = {callLog[Len(callLog)]}
       /\ \A i, j \in 1..Len(callLog) :
             i < j => (callLog[i].employee <= callLog[j].employee /\ callLog[j].employee <= idx)
       /\ \A e \in 1..idx :
             LET calls == BatchCallsOf(e)
             IN /\ Len(calls) <= GroupsFor(n)
                /\ (e <= Len(data) \/ e < idx) => Len(calls) = GroupsFor(n)
                /\ \A j \in 1..Len(calls) :
                      LET d == SplitDestinations(calls[j].destinations)
                      IN /\ Len(d) <= batch_size
                         /\ Len(calls[j].destinations) = 2 * Len(d) - 1
                         /\ d = SubSeq(FacZips, (j - 1) * batch_size + 1,
                                       Min(j * batch_size, n))
       /\ pc \in {"for_batch", "await_batch", "for_employee", "done"} =>
             /\ Len(distances) <= n
             /\ (idx >= 1 /\ Len(data) = idx) => Len(distances) = n
             /\ \A i \in 1..Len(distances) : distances[i] = world[idx][FacZips[i]]
       /\ \A i, j \in 1..Len(aggregated) :
             i < j => PlaceIn(facilityRows, aggregated[i][1]) < PlaceIn(facilityRows, aggregated[j][1])

C10_Witness ==
    /\ pc = "done"
    /\ Len(facilityRows) = 23
    /\ Len(inputRows) = 2
    /\ Len(BatchCallsOf(2)) = 3
    /\ Len(SplitDestinations(BatchCallsOf(2)[1].destinations)) = 10
    /\ Len(SplitDestinations(BatchCallsOf(2)[2].destinations)) = 10
    /\ Len(SplitDestinations(BatchCallsOf(2)[3].destinations)) = 3

====
